---------------------------- MODULE Spec2Model ----------------------------
(***************************************************************************)
(* contact-details: parse_contacts.py (CSV variant) and                    *)
(* parse_contacts_json.py (JSON variant).                                  *)
(*                                                                         *)
(* Documents are strings; the regular expressions of the two scripts are   *)
(* transcribed as syntax trees and run by a backtracking matcher with      *)
(* Python's re semantics (leftmost match, alternatives and repetitions     *)
(* tried in priority order).                                               *)
(***************************************************************************)
EXTENDS Integers, Sequences, FiniteSets, TLC

(***************************************************************************)
(* Characters.                                                             *)
(***************************************************************************)
\* The characters of a string, as a set of one-character strings.
CharsOf(str) == { SubSeq(str, i, i) : i \in 1..Len(str) }

\* ASCII in code-point order: TAB (9), LF (10), then 32..126 (the backquote, which no
\* document of the model holds, left out).
AsciiOrder == "\t\n !\"#$%&'()*+,-./0123456789:;<=>?@ABCDEFGHIJKLMNOPQRSTUVWXYZ[\\]^_abcdefghijklmnopqrstuvwxyz{|}~"

UpperChars == "ABCDEFGHIJKLMNOPQRSTUVWXYZ"
LowerChars == "abcdefghijklmnopqrstuvwxyz"
DigitChars == "0123456789"

\* [A-Z], [a-z], \d, \s, \w of Python's re (ASCII part).
UpperSet == CharsOf(UpperChars)
LowerSet == CharsOf(LowerChars)
DigitSet == CharsOf(DigitChars)
AlphaSet == UpperSet \cup LowerSet
SpaceSet == {" ", "\t", "\n"}
WordSet == AlphaSet \cup DigitSet \cup {"_"}

\* ord(c): the position of c in code-point order.
OrdTable == [ c \in CharsOf(AsciiOrder) |->
                CHOOSE i \in 1..Len(AsciiOrder) : SubSeq(AsciiOrder, i, i) = c ]

\* str.lower() on one character.
LowerTable == [ c \in CharsOf(AsciiOrder) |->
                  IF c \in UpperSet
                  THEN LET i == CHOOSE j \in 1..Len(UpperChars) : SubSeq(UpperChars, j, j) = c
                       IN SubSeq(LowerChars, i, i)
                  ELSE c ]

\* The character of s at 0-based offset i.
At(s, i) == SubSeq(s, i + 1, i + 1)

\* s[a:b] with 0-based offsets, a <= b.
Slice(s, a, b) == SubSeq(s, a + 1, b)

\* The identity.
AsIs(x) == x

\* The least and the greatest element of a non-empty set of integers.
Min(S) == CHOOSE x \in S : \A y \in S : x <= y
Max(S) == CHOOSE x \in S : \A y \in S : x >= y

\* The elements of a set of integers in ascending order.
SortedInts(S) == [ k \in 1..Cardinality(S) |->
                     CHOOSE x \in S : Cardinality({ y \in S : y < x }) = k - 1 ]

\* The concatenation of a sequence of strings with sep between them: sep.join(parts).
RECURSIVE join(_, _)
join(sep, parts) ==
    IF Len(parts) = 0 THEN ""
    ELSE IF Len(parts) = 1 THEN parts[1]
    ELSE LET h == Len(parts) \div 2
         IN join(sep, SubSeq(parts, 1, h)) \o sep \o join(sep, SubSeq(parts, h + 1, Len(parts)))

\* str.lower().
str_lower(s) == join("", [ i \in 1..Len(s) |-> LowerTable[SubSeq(s, i, i)] ])

\* s < t for Python strings: lexicographic by code point.
StrLess(s, t) ==
    LET m == IF Len(s) < Len(t) THEN Len(s) ELSE Len(t)
    IN IF \A i \in 1..m : SubSeq(s, i, i) = SubSeq(t, i, i)
       THEN Len(s) < Len(t)
       ELSE LET d == CHOOSE i \in 1..m :
                       /\ SubSeq(s, i, i) # SubSeq(t, i, i)
                       /\ \A j \in 1..(i - 1) : SubSeq(s, j, j) = SubSeq(t, j, j)
            IN OrdTable[SubSeq(s, d, d)] < OrdTable[SubSeq(t, d, d)]

\* str.startswith, and the test `x in s` for a substring x.
startswith(s, p) == Len(p) <= Len(s) /\ SubSeq(s, 1, Len(p)) = p
Contains(s, x) == \E i \in 0..(Len(s) - Len(x)) : Slice(s, i, i + Len(x)) = x

\* str.find and str.rfind for a one-character x (-1: absent).
Find(s, x) == IF Contains(s, x)
              THEN CHOOSE i \in 0..(Len(s) - 1) :
                     At(s, i) = x /\ \A j \in 0..(i - 1) : At(s, j) # x
              ELSE -1
RFind(s, x) == IF Contains(s, x)
               THEN CHOOSE i \in 0..(Len(s) - 1) :
                      At(s, i) = x /\ \A j \in (i + 1)..(Len(s) - 1) : At(s, j) # x
               ELSE -1

\* s with the leading (lstrip) and trailing (rstrip) characters of `chars` removed.
lstrip(s, chars) ==
    IF \A i \in 1..Len(s) : SubSeq(s, i, i) \in chars THEN ""
    ELSE LET f == CHOOSE i \in 1..Len(s) :
                    /\ SubSeq(s, i, i) \notin chars
                    /\ \A j \in 1..(i - 1) : SubSeq(s, j, j) \in chars
         IN SubSeq(s, f, Len(s))
rstrip(s, chars) ==
    IF \A i \in 1..Len(s) : SubSeq(s, i, i) \in chars THEN ""
    ELSE LET l == CHOOSE i \in 1..Len(s) :
                    /\ SubSeq(s, i, i) \notin chars
                    /\ \A j \in (i + 1)..Len(s) : SubSeq(s, j, j) \in chars
         IN SubSeq(s, 1, l)

\* str.strip(): whitespace removed at both ends.
strip(s) == rstrip(lstrip(s, SpaceSet), SpaceSet)

\* str.split(sep) for a one-character separator.
SplitAt(s, ps) ==
    [ k \in 1..(Len(ps) + 1) |->
        SubSeq(s, IF k = 1 THEN 1 ELSE ps[k - 1] + 1,
                  IF k = Len(ps) + 1 THEN Len(s) ELSE ps[k] - 1) ]
split(s, sep) == SplitAt(s, SortedInts({ i \in 1..Len(s) : SubSeq(s, i, i) = sep }))

\* The members of a list.
Range(q) == { q[n] : n \in 1..Len(q) }

\* `x in list`.
InSeq(x, q) == \E k \in 1..Len(q) : q[k] = x

(***************************************************************************)
(* Regular expressions: syntax trees and the backtracking matcher.         *)
(***************************************************************************)
Lit(str) == <<"lit", str>>                  \* the characters of str
Cls(set) == <<"cls", set>>                  \* [...]
NCls(set) == <<"ncls", set>>                \* [^...]
Cat(parts) == <<"cat", parts>>              \* r1 r2 ...
Alt(parts) == <<"alt", parts>>              \* r1|r2|...
Rep(r, lo, hi) == <<"rep", r, lo, hi>>      \* r{lo,hi}, greedy; hi = -1: no limit
Lazy(r, lo, hi) == <<"lazy", r, lo, hi>>    \* r{lo,hi}?, lazy
WB == <<"wb">>                              \* \b
Open == <<"open">>                          \* ( of group 1
Close == <<"close">>                        \* ) of group 1
Star(r) == Rep(r, 0, -1)
Plus(r) == Rep(r, 1, -1)
Opt(r) == Rep(r, 0, 1)
Dec(hi) == IF hi < 0 THEN hi ELSE hi - 1

\* \b at offset i: exactly one of the characters before and after is a word character.
AtBoundary(s, i) ==
    LET before == i > 0 /\ At(s, i - 1) \in WordSet
        after == i < Len(s) /\ At(s, i) \in WordSet
    IN before # after

\* Whether the character class r accepts c, and how many characters from offset i on
\* it accepts in a row.
Accepts(r, c) == IF r[1] = "cls" THEN c \in r[2] ELSE c \notin r[2]
RunLen(r, s, i) ==
    (CHOOSE j \in i..Len(s) :
        /\ j = Len(s) \/ ~Accepts(r, At(s, j))
        /\ \A m \in i..(j - 1) : Accepts(r, At(s, m))) - i

\* The first success among the candidates of a pair of attempts: `a` when it is a
\* match, else `b`.
OrElse(a, b) == IF Len(a) > 0 THEN a ELSE b

\* Match the regexes of `todo`, in order, from offset i of s: <<end, gs, ge>> of the
\* first match in backtracking order (group 1 at gs..ge), or <<>> when there is none.
\* A repetition of a character class (RepeatClass) tries its counts lo..top from the
\* longest down (greedy) or from the shortest up (lazy), as the backtracking does.
RECURSIVE Match(_, _, _, _, _)
RECURSIVE RepeatClass(_, _, _, _, _, _, _, _)
RepeatClass(greedy, lo, top, rest, s, i, gs, ge) ==
    IF lo > top THEN <<>>
    ELSE IF Len(Match(rest, s, i + (IF greedy THEN top ELSE lo), gs, ge)) > 0
    THEN Match(rest, s, i + (IF greedy THEN top ELSE lo), gs, ge)
    ELSE IF \A n \in lo..top : Len(Match(rest, s, i + n, gs, ge)) = 0 THEN <<>>
    ELSE IF greedy
    THEN Match(rest, s, i + Max({ n \in lo..top : Len(Match(rest, s, i + n, gs, ge)) > 0 }), gs, ge)
    ELSE Match(rest, s, i + Min({ n \in lo..top : Len(Match(rest, s, i + n, gs, ge)) > 0 }), gs, ge)
Match(todo, s, i, gs, ge) ==
    IF Len(todo) = 0 THEN <<i, gs, ge>>
    ELSE
    LET r == Head(todo)
        rest == Tail(todo)
        k == r[1]
    IN CASE k = "lit" ->
              IF i + Len(r[2]) <= Len(s) /\ Slice(s, i, i + Len(r[2])) = r[2]
              THEN Match(rest, s, i + Len(r[2]), gs, ge) ELSE <<>>
         [] k \in {"cls", "ncls"} ->
              IF i < Len(s) /\ Accepts(r, At(s, i))
              THEN Match(rest, s, i + 1, gs, ge) ELSE <<>>
         [] k = "cat" -> Match(r[2] \o rest, s, i, gs, ge)
         [] k = "alt" ->
              OrElse(Match(<<Head(r[2])>> \o rest, s, i, gs, ge),
                     IF Len(r[2]) = 1 THEN <<>>
                     ELSE Match(<<Alt(Tail(r[2]))>> \o rest, s, i, gs, ge))
         [] k \in {"rep", "lazy"} /\ r[2][1] \in {"cls", "ncls"} ->
              RepeatClass(k = "rep", r[3],
                          IF r[4] >= 0 /\ r[4] < RunLen(r[2], s, i) THEN r[4]
                          ELSE RunLen(r[2], s, i),
                          rest, s, i, gs, ge)
         [] k = "rep" ->
              IF r[3] > 0
              THEN Match(<<r[2], Rep(r[2], r[3] - 1, Dec(r[4]))>> \o rest, s, i, gs, ge)
              ELSE IF r[4] = 0 THEN Match(rest, s, i, gs, ge)
              ELSE OrElse(Match(<<r[2], Rep(r[2], 0, Dec(r[4]))>> \o rest, s, i, gs, ge),
                          Match(rest, s, i, gs, ge))
         [] k = "lazy" ->
              IF r[3] > 0
              THEN Match(<<r[2], Lazy(r[2], r[3] - 1, Dec(r[4]))>> \o rest, s, i, gs, ge)
              ELSE OrElse(Match(rest, s, i, gs, ge),
                          IF r[4] = 0 THEN <<>>
                          ELSE Match(<<r[2], Lazy(r[2], 0, Dec(r[4]))>> \o rest, s, i, gs, ge))
         [] k = "wb" -> IF AtBoundary(s, i) THEN Match(rest, s, i, gs, ge) ELSE <<>>
         [] k = "open" -> Match(rest, s, i, i, ge)
         [] k = "close" -> Match(rest, s, i, gs, i)

\* The non-overlapping matches of re in s, left to right, each as [st, en, gs, ge]:
\* the scan takes the first offset at or after pos where a match starts (starts: the
\* offsets where one does) and goes on from that match's end. No pattern of the
\* scripts matches the empty string.
RECURSIVE Scan(_, _, _, _)
ScanMatch(re, s, starts, p, m) ==
    <<[st |-> p, en |-> m[1], gs |-> m[2], ge |-> m[3]]>> \o Scan(re, s, starts, m[1])
Scan(re, s, starts, pos) ==
    IF \A p \in starts : p < pos THEN <<>>
    ELSE ScanMatch(re, s, starts, Min({ p \in starts : p >= pos }),
                   Match(<<re>>, s, Min({ p \in starts : p >= pos }), -1, -1))
Matches(re, s) ==
    Scan(re, s, { p \in 0..(Len(s) - 1) : Len(Match(<<re>>, s, p, -1, -1)) > 0 }, 0)

\* re.findall for a pattern without a group (whole matches) and with one group.
WholeOf(s, ms) == [ n \in 1..Len(ms) |-> Slice(s, ms[n].st, ms[n].en) ]
GroupOf(s, ms) == [ n \in 1..Len(ms) |-> Slice(s, ms[n].gs, ms[n].ge) ]
findall(re, s) == WholeOf(s, Matches(re, s))
findall_group(re, s) == GroupOf(s, Matches(re, s))

\* re.sub(re, repl, s): the text between the matches, joined by repl.
Between(s, ms) ==
    [ n \in 1..(Len(ms) + 1) |->
        Slice(s, IF n = 1 THEN 0 ELSE ms[n - 1].en,
                 IF n = Len(ms) + 1 THEN Len(s) ELSE ms[n].st) ]
re_sub(re, repl, s) == join(repl, Between(s, Matches(re, s)))

(***************************************************************************)
(* The patterns of the two scripts.                                        *)
(***************************************************************************)
Quotes == {"\"", "'"}
AnyChar == NCls({})                \* . under re.DOTALL
AnyButNewline == NCls({"\n"})      \* . without re.DOTALL

\* [a-zA-Z0-9._%+-]+@[a-zA-Z0-9.-]+\.[a-zA-Z]{2,}
email_pattern ==
    Cat(<<Plus(Cls(AlphaSet \cup DigitSet \cup {".", "_", "%", "+", "-"})), Lit("@"),
          Plus(Cls(AlphaSet \cup DigitSet \cup {".", "-"})), Lit("."),
          Rep(Cls(AlphaSet), 2, -1)>>)

\* (?:01\d{3,4}|02\d{3,4}|\+44)
PhonePrefix ==
    Alt(<<Cat(<<Lit("01"), Rep(Cls(DigitSet), 3, 4)>>),
          Cat(<<Lit("02"), Rep(Cls(DigitSet), 3, 4)>>),
          Lit("+44")>>)
\* [\d\s()+-]
PhoneChars == Cls(DigitSet \cup SpaceSet \cup {"(", ")", "+", "-"})

\* \b(?:01\d{3,4}|02\d{3,4}|\+44)\s?[\d\s()+-]{8,}\b
phone_pattern_csv ==
    Cat(<<WB, PhonePrefix, Opt(Cls(SpaceSet)), Rep(PhoneChars, 8, -1), WB>>)

\* \b(?:01\d{3,4}|02\d{3,4}|\+44)\s?[\d\s()+-]*\d[\d\s()+-]*\b
phone_pattern_json ==
    Cat(<<WB, PhonePrefix, Opt(Cls(SpaceSet)), Star(PhoneChars), Cls(DigitSet),
          Star(PhoneChars), WB>>)

\* \b[A-Z]{1,2}\d[A-Z\d]?\s?\d[A-Z]{2}\b
postcode_pattern ==
    Cat(<<WB, Rep(Cls(UpperSet), 1, 2), Cls(DigitSet), Opt(Cls(UpperSet \cup DigitSet)),
          Opt(Cls(SpaceSet)), Cls(DigitSet), Rep(Cls(UpperSet), 2, 2), WB>>)

\* href=["\']([^"\']+)["\']
url_pattern ==
    Cat(<<Lit("href="), Cls(Quotes), Open, Plus(NCls(Quotes)), Close, Cls(Quotes)>>)

\* <span[^>]*itemprop=["\']NAME["\'][^>]*>(.*?)</span>
ItempropSpan(name, dot) ==
    Cat(<<Lit("<span"), Star(NCls({">"})), Lit("itemprop="), Cls(Quotes), Lit(name),
          Cls(Quotes), Star(NCls({">"})), Lit(">"), Open, Lazy(dot, 0, -1), Close,
          Lit("</span>")>>)
street_addr_pattern == ItempropSpan("streetAddress", AnyChar)
locality_pattern == ItempropSpan("addressLocality", AnyButNewline)
region_pattern == ItempropSpan("addressRegion", AnyButNewline)

\* <[^>]+>
tag_pattern == Cat(<<Lit("<"), Plus(NCls({">"})), Lit(">")>>)
\* <br\s*/?>
br_pattern == Cat(<<Lit("<br"), Star(Cls(SpaceSet)), Opt(Cls({"/"})), Lit(">")>>)
\* <script[^>]*>.*?</script>  (re.DOTALL)
script_pattern ==
    Cat(<<Lit("<script"), Star(NCls({">"})), Lit(">"), Lazy(AnyChar, 0, -1),
          Lit("</script>")>>)
\* \s+
space_pattern == Plus(Cls(SpaceSet))
\* \b([A-Z][a-z]+(?:\s+[A-Z][a-z]+)*)\b
CapWord == Cat(<<Cls(UpperSet), Plus(Cls(LowerSet))>>)
capitalized_pattern ==
    Cat(<<WB, Open, CapWord, Star(Cat(<<Plus(Cls(SpaceSet)), CapWord>>)), Close, WB>>)

\* The terms the CSV script filters out of the 'other' terms.
common_words == {"Address", "Service", "Management", "Email", "Phone", "Cheshire",
                 "East", "Council", "Contact", "Team", "Division"}

(***************************************************************************)
(* urllib.parse.urlparse, as far as the scripts use it: scheme, netloc and *)
(* path, and the ValueError of a netloc with an unbalanced bracket.        *)
(***************************************************************************)
None == <<>>
Some(x) == <<x>>
ValueError == [exc |-> "ValueError"]

scheme_chars == AlphaSet \cup DigitSet \cup {"+", "-", "."}
uses_params == {"", "ftp", "hdl", "prospero", "http", "imap", "https", "shttp", "rtsp",
                "rtsps", "rtspu", "sip", "sips", "mms", "sftp", "tel"}

\* s without the characters of `chars`.
Without(s, chars) ==
    join("", [ i \in 1..Len(s) |-> IF SubSeq(s, i, i) \in chars THEN "" ELSE SubSeq(s, i, i) ])

\* The offset of the first of '/', '?', '#' at or after `start`, else len(url).
NetlocEnd(url, start) ==
    CHOOSE j \in start..Len(url) :
        /\ j = Len(url) \/ At(url, j) \in {"/", "?", "#"}
        /\ \A m \in start..(j - 1) : At(url, m) \notin {"/", "?", "#"}

\* url up to its first `c` (all of url when it has none).
Before(url, c) == IF Contains(url, c) THEN Slice(url, 0, Find(url, c)) ELSE url

\* _splitparams(url)[0].
splitparams(url) ==
    IF Contains(url, "/")
    THEN LET tail == Slice(url, RFind(url, "/"), Len(url))
         IN IF Contains(tail, ";")
            THEN Slice(url, 0, RFind(url, "/") + Find(tail, ";"))
            ELSE url
    ELSE Slice(url, 0, Find(url, ";"))

\* urlsplit after the scheme: the netloc of a url that starts with '//', then the
\* fragment and the query cut off the rest, then (urlparse) the params cut off.
path_of(scheme, rest) ==
    IF scheme \in uses_params /\ Contains(Before(Before(rest, "#"), "?"), ";")
    THEN splitparams(Before(Before(rest, "#"), "?"))
    ELSE Before(Before(rest, "#"), "?")
split_netloc(scheme, url, delim) ==
    IF Contains(Slice(url, 2, delim), "[") # Contains(Slice(url, 2, delim), "]")
    THEN ValueError
    ELSE [scheme |-> scheme, netloc |-> Slice(url, 2, delim),
          path |-> path_of(scheme, Slice(url, delim, Len(url)))]
after_scheme(scheme, url) ==
    IF startswith(url, "//") THEN split_netloc(scheme, url, NetlocEnd(url, 2))
    ELSE [scheme |-> scheme, netloc |-> "", path |-> path_of(scheme, url)]

\* urlsplit: the scheme is the text before the first ':' when that text starts with
\* a letter and holds scheme characters only.
split_scheme(url, i) ==
    IF i > 0 /\ At(url, 0) \in AlphaSet /\ \A j \in 0..(i - 1) : At(url, j) \in scheme_chars
    THEN after_scheme(str_lower(Slice(url, 0, i)), Slice(url, i + 1, Len(url)))
    ELSE after_scheme("", url)
cleaned(url) == Without(lstrip(url, SpaceSet), {"\t", "\n"})

\* urlparse(url): [scheme, netloc, path], or ValueError.
urlparse(url) == split_scheme(cleaned(url), Find(cleaned(url), ":"))

\* The URL kept for one href target: scheme://netloc/path of a target with a scheme,
\* the target itself otherwise, without its trailing slashes.
base_url_from(url, parsed) ==
    rstrip(IF parsed.scheme # ""
           THEN parsed.scheme \o "://" \o parsed.netloc \o parsed.path
           ELSE url, {"/"})
base_url_of(url) == base_url_from(url, urlparse(url))

\* The href targets that are parsed: those not starting with 'mailto:'.
href_targets(html_content) ==
    SelectSeq(findall_group(url_pattern, html_content),
              LAMBDA url : ~startswith(url, "mailto:"))

\* Whether the URL loop raises: urlparse raises on one of the targets.
url_loop_raises(html_content) ==
    \E url \in Range(href_targets(html_content)) : urlparse(url) = ValueError

(***************************************************************************)
(* Lists and sets of strings.                                              *)
(***************************************************************************)
StrLeq(s, t) == s = t \/ StrLess(s, t)

\* sorted(q) for a list of strings.
sorted(q) ==
    [ n \in 1..Len(q) |->
        CHOOSE x \in Range(q) :
            /\ Cardinality({ m \in 1..Len(q) : StrLess(q[m], x) }) < n
            /\ n <= Cardinality({ m \in 1..Len(q) : StrLeq(q[m], x) }) ]

\* q reversed.
Reverse(q) == [ n \in 1..Len(q) |-> q[Len(q) + 1 - n] ]

\* The order in which a set of str is iterated. It depends on the hashes of its
\* members, which change with the hash seed of the process: two seeds, two orders.
HashSeeds == {0, 1}
Ascending(S) ==
    [ n \in 1..Cardinality(S) |->
        CHOOSE x \in S : Cardinality({ y \in S : StrLess(y, x) }) = n - 1 ]
list_of_set(S, seed) == IF seed = 0 THEN Ascending(S) ELSE Reverse(Ascending(S))

\* q[:n].
Take(q, n) == SubSeq(q, 1, IF Len(q) < n THEN Len(q) ELSE n)

\* The loop `for x in items: if x and x not in lines: lines.append(x)`.
RECURSIVE append_new(_, _)
append_new(lines, items) ==
    IF Len(items) = 0 THEN lines
    ELSE append_new(IF Head(items) # "" /\ ~InSeq(Head(items), lines)
                    THEN Append(lines, Head(items)) ELSE lines,
                    Tail(items))

\* The concatenation of a list of lists.
RECURSIVE Flatten(_)
Flatten(qs) == IF Len(qs) = 0 THEN <<>> ELSE Head(qs) \o Flatten(Tail(qs))

\* [part.strip() for part in q].
stripped(q) == [ n \in 1..Len(q) |-> strip(q[n]) ]

(***************************************************************************)
(* parse_contacts.py: extract_contact_details.                             *)
(***************************************************************************)
\* The stripped parts of one streetAddress match: the tags are removed first, and
\* the <br> markers, already gone, are then replaced by newlines.
street_parts_csv(match) ==
    stripped(split(re_sub(br_pattern, "\n", re_sub(tag_pattern, "", match)), "\n"))
street_lines_csv(street_matches) ==
    Flatten([ n \in 1..Len(street_matches) |-> street_parts_csv(street_matches[n]) ])

\* The text of one addressLocality or addressRegion match.
span_text(match) == strip(re_sub(tag_pattern, "", match))
span_texts(matches) == [ n \in 1..Len(matches) |-> span_text(matches[n]) ]

\* The address lines: street parts, then localities, then regions, each added when
\* it is not empty and not yet among the lines.
address_lines_csv(html_content) ==
    append_new(
        append_new(
            append_new(<<>>, street_lines_csv(findall_group(street_addr_pattern,
                                                            html_content))),
            span_texts(findall_group(locality_pattern, html_content))),
        span_texts(findall_group(region_pattern, html_content)))

\* The text the 'other' terms are searched in: script blocks and tags removed,
\* whitespace runs collapsed (not stripped).
text_content_csv(html_content) ==
    re_sub(space_pattern, " ",
           re_sub(tag_pattern, "", re_sub(script_pattern, "", html_content)))

\* The set other_terms: the capitalized phrases that are not common words.
other_terms(html_content) ==
    Range(findall_group(capitalized_pattern, text_content_csv(html_content)))
        \ common_words

\* details['other']: sorted(list(other_terms))[:3].
other_csv(html_content, seed) ==
    Take(sorted(list_of_set(other_terms(html_content), seed)), 3)

\* details['urls']: the set of the URLs kept.
urls_csv(html_content) ==
    { base_url_of(url) : url \in Range(href_targets(html_content)) } \ {""}

\* extract_contact_details(html_content): the details, or the ValueError of urlparse.
\* `matches[0] if matches else ''`, and the same stripped.
first_or_empty(matches) == IF Len(matches) > 0 THEN matches[1] ELSE ""
first_stripped_or_empty(matches) == IF Len(matches) > 0 THEN strip(matches[1]) ELSE ""

extract_contact_details_csv(html_content, seed) ==
    IF url_loop_raises(html_content) THEN ValueError
    ELSE [email |-> first_or_empty(findall(email_pattern, html_content)),
          telephone |-> first_stripped_or_empty(findall(phone_pattern_csv, html_content)),
          address_lines |-> address_lines_csv(html_content),
          postcode |-> first_stripped_or_empty(findall(postcode_pattern, html_content)),
          urls |-> urls_csv(html_content),
          other |-> other_csv(html_content, seed)]

(***************************************************************************)
(* parse_contacts_json.py: extract_contact_details, extract_plain_text.    *)
(***************************************************************************)
\* extract_plain_text(html_content): the text, or None when it is empty.
\* `x if x else None`.
or_none(x) == IF x # "" THEN Some(x) ELSE None
extract_plain_text(html_content) ==
    or_none(strip(re_sub(space_pattern, " ",
                  re_sub(tag_pattern, "", re_sub(script_pattern, "", html_content)))))

\* The stripped parts of one streetAddress match: the <br> markers become newlines,
\* then the other tags are removed.
street_parts_json(match) ==
    stripped(split(re_sub(tag_pattern, "", re_sub(br_pattern, "\n", match)), "\n"))
street_lines_json(street_matches) ==
    Flatten([ n \in 1..Len(street_matches) |-> street_parts_json(street_matches[n]) ])

address_lines_json(html_content) ==
    append_new(<<>>, street_lines_json(findall_group(street_addr_pattern, html_content)))

\* `if x:` for x a str or None.
Truthy(x) == x # None /\ x[1] # ""

\* city: the text of the first addressLocality match, None without a match.
first_text(matches) == IF Len(matches) > 0 THEN Some(span_text(matches[1])) ELSE None
city_json(html_content) == first_text(findall_group(locality_pattern, html_content))

\* county: the text of the first addressRegion match, None without a match or when
\* the text is "cheshire" in any letter case.
not_cheshire(county) ==
    IF county # None /\ str_lower(county[1]) = "cheshire" THEN None ELSE county
county_json(html_content) ==
    not_cheshire(first_text(findall_group(region_pattern, html_content)))

\* `if x: details[...] = x`: the field stays None for None and for ''.
set_if_truthy(x) == IF Truthy(x) THEN x ELSE None

\* details["website"]: one entry per URL kept, in the order found, each URL once.
website_entry(base_url) ==
    [label |-> None, link |-> [id |-> "", title |-> base_url, uri |-> base_url]]
base_urls(targets) == [ n \in 1..Len(targets) |-> base_url_of(targets[n]) ]
website_entries(urls) == [ n \in 1..Len(urls) |-> website_entry(urls[n]) ]
website_json(html_content) ==
    website_entries(append_new(<<>>, base_urls(href_targets(html_content))))

email_entry(email) == [label |-> email, email |-> email]
email_entries(emails) == [ n \in 1..Len(emails) |-> email_entry(emails[n]) ]
telephone_entry(phone) ==
    [label |-> strip(phone), telephone |-> strip(phone), extension |-> None]
telephone_entries(phones) == [ n \in 1..Len(phones) |-> telephone_entry(phones[n]) ]

\* `q[n] if len(q) > n else None` (n counted from 0).
item_or_none(q, n) == IF Len(q) > n THEN Some(q[n + 1]) ELSE None
first_stripped_or_none(matches) == IF Len(matches) > 0 THEN Some(strip(matches[1])) ELSE None

\* The dict extract_contact_details fills in, given the address lines it found.
details_json(html_content, filename, address_lines) ==
    [entryTitle |-> filename,
     title |-> item_or_none(address_lines, 0),
     address |-> <<[title |-> item_or_none(address_lines, 0),
                    addressLine01 |-> item_or_none(address_lines, 0),
                    addressLine02 |-> item_or_none(address_lines, 1),
                    city |-> set_if_truthy(city_json(html_content)),
                    county |-> set_if_truthy(county_json(html_content)),
                    postcode |-> first_stripped_or_none(findall(postcode_pattern, html_content)),
                    country |-> None]>>,
     email |-> email_entries(findall(email_pattern, html_content)),
     telephone |-> telephone_entries(findall(phone_pattern_json, html_content)),
     website |-> website_json(html_content),
     entryDescription |-> None,
     text |-> None,
     socialLinks |-> <<>>,
     entryTags |-> <<>>,
     entryThumbnail |-> None,
     other |-> extract_plain_text(html_content)]

\* extract_contact_details(html_content, filename): the record, or the ValueError of
\* urlparse.
extract_contact_details_json(html_content, filename) ==
    IF url_loop_raises(html_content) THEN ValueError
    ELSE details_json(html_content, filename, address_lines_json(html_content))

(***************************************************************************)
(* The directory, and the documents in it.                                 *)
(***************************************************************************)
\* A page with address markup, two links to one page, an email and a phone number.
DocFull ==
    "<span itemprop=\"streetAddress\">Westfields<br/>\nMiddlewich Road</span> CW11 1HZ <a href=\"https://x.org/b/?r=1\">Web</a> <a href='https://x.org/a'>Info</a> a@x.org 01270 686868"
\* A page with one link whose host has an unbalanced bracket.
DocBadHref == "<p>Zed</p><a href=\"http://[x\">Bad</a>"
\* An empty page.
DocEmpty == ""
SampleDocs == {DocFull, DocBadHref, DocEmpty}

\* The names a directory may hold, notes.txt in every directory; a file is unreadable
\* (open or decoding fails) or readable with its content.
FileNames == {"a.html", "a-b.html", "test.html", "notes.txt"}
Unreadable == [readable |-> FALSE, content |-> ""]
ReadableWith(doc) == [readable |-> TRUE, content |-> doc]
FileStates(name) ==
    CASE name = "a.html" -> {Unreadable} \cup { ReadableWith(doc) : doc \in SampleDocs }
      [] name = "a-b.html" -> {Unreadable, ReadableWith(DocFull), ReadableWith(DocBadHref)}
      [] OTHER -> {ReadableWith(DocFull)}
Directories ==
    UNION { { d \in [S -> UNION { FileStates(n) : n \in S }] :
                \A n \in S : d[n] \in FileStates(n) } :
              S \in { T \in SUBSET FileNames : "notes.txt" \in T } }

\* The runs of the script over one directory.
MaxRuns == 2

\* The documents of the extraction specification: up to MaxFrags different fragments
\* in a row.
MaxFrags == 2
\* Two links to one page (one with a query string, one with a trailing slash) and a
\* mailto link.
FragLinks ==
    "<a href=\"https://x.org/page?ref=1\">Web</a> <a href='https://x.org/page/'>Home</a> <a href=\"mailto:jo@x.org\">"
\* A relative link with a query string.
FragRelative == "<a href=\"page?ref=1\">Next</a>"
\* A link whose host has an unbalanced bracket.
FragBadHref == "<a href=\"http://[x\">Bad</a>"
\* A street address of two parts with a line break between them, and a locality.
FragStreet ==
    "<span itemprop=\"streetAddress\">1 High St<br>Crewe Rd</span>, <span itemprop=\"addressLocality\">Crewe</span>"
\* The region Cheshire, in capitals and inside a tag, and another region.
FragCheshire == "<span itemprop=\"addressRegion\"> <b>CHESHIRE</b></span>"
FragKent == "<span itemprop=\"addressRegion\">Kent</span>"
\* An address in plain lines, without markup, the postcode on the last address line.
FragPlain == "1 High St\nCrewe\nCW1 2BJ\nTel 01270 686868\n"
\* A script block and a paragraph with four capitalized phrases and a common word.
FragProse ==
    "<script>var Big = 1;</script><p>Town Hall, Zed Service and Apple. Team Yard or Email</p>"
Fragments == {FragLinks, FragRelative, FragBadHref, FragStreet, FragCheshire, FragKent,
              FragPlain, FragProse}
PartLists ==
    UNION { { q \in [1..n -> Fragments] : \A a, b \in 1..n : a # b => q[a] # q[b] } :
              n \in 0..MaxFrags }

VARIABLES
    variant,      \* "csv": parse_contacts.py, "json": parse_contacts_json.py
    hashseed,     \* the hash seed of the running process
    files,        \* the directory: file name -> file state
    pc,           \* where the run is: "start", "loop", "returned", "saved"
    listing,      \* the paths in the order the file system listed them
    html_files,   \* process_all_files: the sorted list of paths
    idx,          \* process_all_files: the index of the next path of the loop
    results,      \* process_all_files: the list of records
    errors,       \* the paths of the "Error parsing" lines printed
    output,       \* what save_csv / save_json wrote, None before
    run,          \* the number of the run
    prev,         \* the run before: its seed, results and output; None in run 1
    parts,        \* extraction specification: the fragments of the document
    details       \* extraction specification: None, or Some(what the extractor returned)

vars == <<variant, hashseed, files, pc, listing, html_files, idx, results, errors, output, run,
          prev, parts, details>>

(***************************************************************************)
(* pathlib: glob('*.html'), name, stem, and the order of paths.            *)
(***************************************************************************)
\* Path(directory).glob('*.html') matches a name that ends in ".html".
glob_html(names) ==
    { n \in names : Len(n) >= 5 /\ SubSeq(n, Len(n) - 4, Len(n)) = ".html" }

\* PurePath.stem: the name up to its last dot, when that dot is neither the first
\* nor the last character.
stem(name) ==
    IF 0 < RFind(name, ".") /\ RFind(name, ".") < Len(name) - 1
    THEN Slice(name, 0, RFind(name, ".")) ELSE name

\* sorted(paths) for the paths of one directory: by name.
sorted_paths(paths) == sorted(paths)

\* The orders in which the file system may list the names S.
Listings(S) ==
    { q \in [1..Cardinality(S) -> S] : \A a, b \in 1..Cardinality(S) : a # b => q[a] # q[b] }

denylist == {".gitignore", "test.html"}

(***************************************************************************)
(* parse_html_file and the loop body of process_all_files.                 *)
(***************************************************************************)
\* parse_html_file: None when the file cannot be read or decoded or the extractor
\* raises (except Exception), else what the extractor returns.
caught(d) == IF d = ValueError THEN None ELSE Some(d)
parse_html_file_csv(file, seed) ==
    IF ~file.readable THEN None
    ELSE caught(extract_contact_details_csv(file.content, seed))
parse_html_file_json(file, filename) ==
    IF ~file.readable THEN None
    ELSE caught(extract_contact_details_json(file.content, filename))

\* `while len(addr_lines) < 3: addr_lines.append('')`.
pad3(addr_lines) ==
    addr_lines \o [ n \in 1..(3 - Len(addr_lines)) |-> "" ]

\* The columns of the CSV file.
fieldnames == <<"Title", "Address Line 1", "Address Line 2", "Address Line 3", "Postcode",
                "Email", "URLs", "Telephone", "Other Information">>

\* The row process_all_files builds from the details of one file.
csv_result(title, contacts, seed) ==
       ("Title" :> title) @@
       ("Address Line 1" :> pad3(contacts.address_lines)[1]) @@
       ("Address Line 2" :> pad3(contacts.address_lines)[2]) @@
       ("Address Line 3" :> pad3(contacts.address_lines)[3]) @@
       ("Postcode" :> contacts.postcode) @@
       ("Email" :> contacts.email) @@
       ("URLs" :> join(", ", sorted(list_of_set(contacts.urls, seed)))) @@
       ("Telephone" :> contacts.telephone) @@
       ("Other Information" :> join("; ", contacts.other))

\* The record of one path for the list of results: None when nothing is appended.
csv_record(title, contacts, seed) ==
    IF contacts = None THEN None ELSE Some(csv_result(title, contacts[1], seed))
record_of(v, file, name, seed) ==
    IF v = "csv"
    THEN csv_record(stem(name), parse_html_file_csv(file, seed), seed)
    ELSE parse_html_file_json(file, stem(name))

\* save_csv: the header row, then one row per record, each in the order of
\* fieldnames. save_json: the list of records.
save_csv(rs) ==
    <<fieldnames>> \o [ n \in 1..Len(rs) |-> [ c \in 1..Len(fieldnames) |-> rs[n][fieldnames[c]] ] ]
save_json(rs) == rs

(***************************************************************************)
(* The run of a script over the directory.                                 *)
(***************************************************************************)
Init ==
    /\ variant \in {"csv", "json"}
    /\ hashseed \in HashSeeds
    /\ files \in Directories
    /\ pc = "start"
    /\ listing = <<>>
    /\ html_files = <<>>
    /\ idx = 1
    /\ results = <<>>
    /\ errors = <<>>
    /\ output = None
    /\ run = 1
    /\ prev = None
    /\ parts = <<>>
    /\ details = None

\* process_all_files, up to the loop: the file system lists the matching names in
\* some order, and the list is sorted.
ListFiles ==
    /\ pc = "start"
    /\ listing' \in Listings(glob_html(DOMAIN files))
    /\ html_files' = sorted_paths(listing')
    /\ idx' = 1
    /\ results' = <<>>
    /\ errors' = <<>>
    /\ pc' = "loop"
    /\ UNCHANGED <<variant, hashseed, files, output, run, prev, parts, details>>

\* The loop body for a name of the denylist: continue.
SkipFile ==
    /\ pc = "loop"
    /\ idx <= Len(html_files)
    /\ html_files[idx] \in denylist
    /\ idx' = idx + 1
    /\ UNCHANGED <<variant, hashseed, files, pc, listing, html_files, results, errors, output, run,
                   prev, parts, details>>

\* The loop body for any other file: the record parse_html_file returns details for
\* is appended; when it returns None the error has been printed and nothing is
\* appended.
ProcessFile ==
    /\ pc = "loop"
    /\ idx <= Len(html_files)
    /\ html_files[idx] \notin denylist
    /\ \E rec \in {record_of(variant, files[html_files[idx]], html_files[idx], hashseed)} :
          IF rec = None
          THEN errors' = Append(errors, html_files[idx]) /\ results' = results
          ELSE results' = Append(results, rec[1]) /\ errors' = errors
    /\ idx' = idx + 1
    /\ UNCHANGED <<variant, hashseed, files, pc, listing, html_files, output, run, prev, parts,
                   details>>

\* process_all_files returns.
Return ==
    /\ pc = "loop"
    /\ idx > Len(html_files)
    /\ pc' = "returned"
    /\ UNCHANGED <<variant, hashseed, files, listing, html_files, idx, results, errors, output, run,
                   prev, parts, details>>

\* save_csv / save_json.
Save ==
    /\ pc = "returned"
    /\ output' = Some(IF variant = "csv" THEN save_csv(results) ELSE save_json(results))
    /\ pc' = "saved"
    /\ UNCHANGED <<variant, hashseed, files, listing, html_files, idx, results, errors, run, prev,
                   parts, details>>

\* The script is run again over the unchanged directory, in a new process.
RunAgain ==
    /\ pc = "saved"
    /\ run < MaxRuns
    /\ prev' = Some([seed |-> hashseed, results |-> results, output |-> output])
    /\ run' = run + 1
    /\ hashseed' \in HashSeeds
    /\ pc' = "start"
    /\ listing' = <<>>
    /\ html_files' = <<>>
    /\ idx' = 1
    /\ results' = <<>>
    /\ errors' = <<>>
    /\ output' = None
    /\ UNCHANGED <<variant, files, parts, details>>

Next == ListFiles \/ SkipFile \/ ProcessFile \/ Return \/ Save \/ RunAgain

Spec == Init /\ [][Next]_vars

(***************************************************************************)
(* The extractor alone, applied to one document.                           *)
(***************************************************************************)
html_content == join("", parts)

InitDoc ==
    /\ variant \in {"csv", "json"}
    /\ hashseed = 0
    /\ parts \in PartLists
    /\ details = None
    /\ files = <<>>
    /\ pc = "extract"
    /\ listing = <<>>
    /\ html_files = <<>>
    /\ idx = 1
    /\ results = <<>>
    /\ errors = <<>>
    /\ output = None
    /\ run = 1
    /\ prev = None

ExtractCsv ==
    /\ pc = "extract"
    /\ variant = "csv"
    /\ details = None
    /\ hashseed' \in HashSeeds
    /\ details' = Some(extract_contact_details_csv(html_content, hashseed'))
    /\ UNCHANGED <<variant, files, pc, listing, html_files, idx, results, errors, output,
                   run, prev, parts>>

ExtractJson ==
    /\ pc = "extract"
    /\ variant = "json"
    /\ details = None
    /\ details' = Some(extract_contact_details_json(html_content, "page"))
    /\ UNCHANGED <<variant, hashseed, files, pc, listing, html_files, idx, results, errors, output,
                   run, prev, parts>>

NextDoc == ExtractCsv \/ ExtractJson

SpecDoc == InitDoc /\ [][NextDoc]_vars

(***************************************************************************)
(* Properties of the run over a directory (Spec).                          *)
(***************************************************************************)
\* The paths the loop parses, and those of them that can be read.
Eligible == glob_html(DOMAIN files) \ denylist
ReadableFiles == { n \in Eligible : files[n].readable }
TitleOf(rec) == IF variant = "csv" THEN rec["Title"] ELSE rec["entryTitle"]
Titles == { TitleOf(results[k]) : k \in 1..Len(results) }

\* C1: when some of the .html files cannot be read, process_all_files returns no
\* record for each of them and a record for every other file that is not on the
\* denylist.
C1_ErrorIsolation ==
    (pc = "returned" /\ \E n \in Eligible : ~files[n].readable)
        => /\ \A n \in Eligible \ ReadableFiles : stem(n) \notin Titles
           /\ \A n \in ReadableFiles : stem(n) \in Titles

\* C2: the list process_all_files returns holds exactly one record for each file that
\* was read, ends in .html and is not on the denylist, in the sorted order of the
\* paths, each with the stem of its file as title, and none for a denylisted file.
C2_OneRecordPerFile ==
    pc = "returned"
        => /\ Len(results) = Cardinality(ReadableFiles)
           /\ \A n \in ReadableFiles :
                 TitleOf(results[Cardinality({ m \in ReadableFiles : StrLess(m, n) }) + 1])
                     = stem(n)
           /\ \A n \in glob_html(DOMAIN files) \cap denylist : stem(n) \notin Titles

\* The columns of a CSV row, and the keys of a JSON record and of its address.
csv_columns == Range(fieldnames)
json_keys == {"entryTitle", "title", "address", "email", "telephone", "website",
              "entryDescription", "text", "socialLinks", "entryTags", "entryThumbnail",
              "other"}
address_keys == {"title", "addressLine01", "addressLine02", "city", "county", "postcode",
                 "country"}
HasEveryField(rec) ==
    IF variant = "csv" THEN DOMAIN rec = csv_columns
    ELSE DOMAIN rec = json_keys /\ Len(rec.address) = 1 /\ DOMAIN rec.address[1] = address_keys
PostcodeEmpty(rec) ==
    IF variant = "csv" THEN rec["Postcode"] = "" ELSE rec.address[1].postcode = None
NoPostcode(n) == Len(findall(postcode_pattern, files[n].content)) = 0

\* C6: every record carries every declared field, and a document without a postcode
\* match yields a record whose postcode field is present and empty (CSV) or null
\* (JSON): no exception takes the record away.
C6_EveryFieldPresent ==
    pc = "returned"
        => /\ \A k \in 1..Len(results) : HasEveryField(results[k])
           /\ \A n \in ReadableFiles :
                 NoPostcode(n) =>
                     \E k \in 1..Len(results) :
                         TitleOf(results[k]) = stem(n) /\ PostcodeEmpty(results[k])

\* C7: a second run over the unchanged directory returns the same records, in the
\* same order, and writes the same output as the run before it, whatever the order
\* in which the file system lists the files and whatever the hash seed.
C7_Deterministic ==
    (prev # None /\ pc = "saved")
        => results = prev[1].results /\ output = prev[1].output
\* A second run that has saved two or more records, with another hash seed than the
\* run before and with a listing that was not in sorted order.
C7_Witness ==
    /\ prev # None
    /\ pc = "saved"
    /\ prev[1].seed # hashseed
    /\ listing # html_files
    /\ Len(results) >= 2
    /\ output # None

(***************************************************************************)
(* Properties of the extractor on one document (SpecDoc).                  *)
(***************************************************************************)
\* The extractor has returned a record for the document.
Extracted == details # None /\ details[1] # ValueError
UrlsOf(d) ==
    IF variant = "csv" THEN d.urls ELSE { d.website[k].link.uri : k \in 1..Len(d.website) }
AddressLinesOf(d) ==
    IF variant = "csv" THEN d.address_lines
    ELSE d.address[1].addressLine01 \o d.address[1].addressLine02

\* C3: the URLs of the record are pairwise distinct, none is a mailto: target, none
\* holds a query string and none ends with a slash; the href
\* "https://x.org/page?ref=1" yields "https://x.org/page".
C3_UrlsCanonical ==
    Extracted
        => /\ \A u \in UrlsOf(details[1]) :
                 /\ ~startswith(u, "mailto:")
                 /\ ~Contains(u, "?")
                 /\ ~(Len(u) > 0 /\ SubSeq(u, Len(u), Len(u)) = "/")
           /\ variant = "json"
                 => \A a, b \in 1..Len(details[1].website) :
                        a # b => details[1].website[a] # details[1].website[b]
           /\ InSeq(FragLinks, parts) => "https://x.org/page" \in UrlsOf(details[1])

\* C4: a streetAddress span of two different parts with a line break between them
\* yields two address lines, the part before the break first.
C4_StreetLines ==
    (Extracted /\ InSeq(FragStreet, parts))
        => /\ Len(AddressLinesOf(details[1])) >= 2
           /\ AddressLinesOf(details[1])[1] = "1 High St"
           /\ AddressLinesOf(details[1])[2] = "Crewe Rd"

\* C5: when the text of the first addressRegion annotation (the first span that
\* region_pattern matches, its tags removed and trimmed) is "Cheshire" in any letter
\* case, the county of the JSON record is null and never "Cheshire"; for any other
\* text that is not empty the county is that text.
C5_County ==
    (Extracted /\ variant = "json"
               /\ Len(findall_group(region_pattern, html_content)) > 0)
        => LET text == span_text(findall_group(region_pattern, html_content)[1])
               county == details[1].address[1].county
           IN /\ str_lower(text) = "cheshire" => county = None
              /\ county # Some("Cheshire")
              /\ (text # "" /\ str_lower(text) # "cheshire") => county = Some(text)
\* A JSON record of a document whose first region is CHESHIRE and whose second is
\* Kent: the county is null.
C5_Witness ==
    /\ Extracted
    /\ variant = "json"
    /\ parts = <<FragCheshire, FragKent>>
    /\ details[1].address[1].county = None

\* C8: the 'other' terms of the CSV record are the capitalized phrases of the text
\* that are not common words, in ascending order, cut to the first three.
C8_OtherTerms ==
    (Extracted /\ variant = "csv")
        => LET other == details[1].other
               phrases == Range(findall_group(capitalized_pattern,
                                              text_content_csv(html_content)))
               qualifying == { t \in phrases : t \notin common_words }
           IN /\ Len(other) <= 3
              /\ \A a, b \in 1..Len(other) : a < b => StrLess(other[a], other[b])
              /\ Range(other) \subseteq qualifying
              /\ \A t \in qualifying \ Range(other) :
                    \A o \in Range(other) : StrLess(o, t)
              /\ Len(other) = Min({3, Cardinality(qualifying)})
              /\ (other = <<>>) <=> (qualifying = {})
\* A CSV record of a document with more than three qualifying phrases and a common
\* word among its phrases, extracted under the descending iteration order.
C8_Witness ==
    /\ Extracted
    /\ variant = "csv"
    /\ hashseed = 1
    /\ InSeq(FragProse, parts)
    /\ Len(details[1].other) = 3
    /\ details[1].other[1] = "Apple"
    /\ Cardinality(other_terms(html_content)) > 3

\* C9: a document without address markup that has a line with a postcode gets its
\* address lines from the lines before the postcode, so they are not all empty.
C9_ReverseScan ==
    (Extracted /\ InSeq(FragPlain, parts)
               /\ \A n \in 1..Len(parts) : parts[n] \notin {FragStreet, FragCheshire, FragKent})
        => Len(AddressLinesOf(details[1])) > 0

\* C10: the text field of the JSON record is the plain-text rendering of the
\* document, null only when the rendering is empty, and the rendering is stored
\* under no other field.
C10_TextField ==
    (Extracted /\ variant = "json")
        => /\ details[1].text = extract_plain_text(html_content)
           /\ extract_plain_text(html_content) # None
                 => details[1].other # extract_plain_text(html_content)

=============================================================================
